---- MODULE Spec2Model ----
(***************************************************************************)
(* Model of the MPT speech-boundary detector of src/mpt_processor.py:      *)
(* detect_speech_with_calibration (frame scan, end-of-clip rule,           *)
(* validation and result assembly), determine_vad_aggressiveness and       *)
(* classify_mpt.                                                           *)
(*                                                                         *)
(* Units.  Times are kept as the integer number of milliseconds m that     *)
(* the code divides by 1000.0 (current_time = frame_num * 30 / 1000.0),    *)
(* so m stands for the IEEE-754 double RN(m / 1000).  Where the code       *)
(* subtracts two such doubles and compares the difference with a           *)
(* threshold that a whole number of frames can hit exactly                 *)
(* (SILENCE_TIMEOUT = 1.5 s = 50 frames), the double arithmetic is         *)
(* modelled bit-exactly (RoundErr, SilenceReached).  Noise levels are kept *)
(* in units of 1/10000, result durations in hundredths of a second and     *)
(* percentages in tenths of a percent.                                     *)
(***************************************************************************)
EXTENDS Integers, Sequences, FiniteSets, TLC

VARIABLES call, fcall

vars == <<call, fcall>>

\* ---------------------------------------------------------------- bounds
\* Longest clip (in complete frames) of the general specification.
MaxFrames == 69
\* Most frames the voice-activity oracle judges as speech in one clip.
MaxSpeechFrames == 3
\* Longest clip of the sustained-phonation specification.
MaxSustainedFrames == 95
\* Longest clip of the paired-clips specification.
MaxPairFrames == 86
\* Most speech frames the two paired clips have in common.
MaxPairSpeechFrames == 2
\* Largest duration classified on its own, in hundredths of a second.
MaxCentiseconds == 2100
\* Largest noise level (1/10000) mapped on its own, besides 1.0.
MaxNoiseLevel == 600
\* Longest clip (in complete frames) calibrated on its own.
MaxCalibrationClip == 20
\* Longest clip of the concurrent-invocations specification.
MaxConcurrentFrames == 91
\* Longest clip (in complete frames) of the byte-buffer specification.
MaxBytesFrames == 53
\* Longest clip of the two-attempts specification.
MaxAttemptFrames == 145
\* Longest clip of the long-phonation specification.
MaxLongFrames == 540
\* The long clip of the counters specification (two minutes of audio).
MaxCounterFrames == 4001

\* ------------------------------------------------------ program constants
None == -1
SAMPLE_RATE == 16000
FRAME_DURATION_MS == 30
FRAME_SIZE == (SAMPLE_RATE * FRAME_DURATION_MS) \div 1000
BYTES_PER_FRAME == FRAME_SIZE * 2
SILENCE_TIMEOUT == 1500
MIN_SPEECH_DURATION == 1000

\* The two invocations the specifications can run.
Calls == {1, 2}

Other(i) == 3 - i

\* ------------------------------------------------- IEEE-754 double model
RECURSIVE Pow2(_)
Pow2(n) == IF n <= 0 THEN 1 ELSE 2 * Pow2(n - 1)

RECURSIVE Pow2Mod(_, _)
Pow2Mod(n, m) == IF n <= 0 THEN 1 % m ELSE (2 * Pow2Mod(n - 1, m)) % m

RECURSIVE ExpUp(_, _)
ExpUp(ms, e) == IF ms < 2000 * Pow2(e) THEN e ELSE ExpUp(ms, e + 1)

RECURSIVE ExpDown(_, _)
ExpDown(ms, n) == IF ms * Pow2(n) >= 1000 THEN n ELSE ExpDown(ms, n + 1)

\* The binary exponent e of ms / 1000: 2^e <= ms / 1000 < 2^(e+1), ms >= 1.
BinaryExponent(ms) == IF ms >= 1000 THEN ExpUp(ms, 0) ELSE 0 - ExpDown(ms, 0)

\* The double RN(ms / 1000) is M * 2^(-UlpShift(ms)) with a 53-bit M.
UlpShift(ms) == IF ms = 0 THEN 0 ELSE 52 - BinaryExponent(ms)

\* (ms * 2^UlpShift(ms)) mod 2000: the part of the quotient by 1000 that
\* decides the rounding (mod 1000) and the parity of the truncated quotient.
Residue(ms) == ((ms % 2000) * Pow2Mod(UlpShift(ms), 2000)) % 2000

\* 1000 * M - ms * 2^UlpShift(ms): the signed rounding error of
\* RN(ms / 1000), in thousandths of a unit in the last place
\* (round to nearest, ties to even).
RoundErr(ms) ==
    LET r == Residue(ms) % 1000
    IN  IF ms = 0 THEN 0
        ELSE IF r < 500 THEN 0 - r
        ELSE IF r > 500 THEN 1000 - r
        ELSE IF Residue(ms) = 500 THEN 0 - 500 ELSE 500

Max(a, b) == IF a >= b THEN a ELSE b

\* 1000 * 2^P * ((RN(cur/1000) - RN(last/1000)) - (cur - last)/1000), with
\* P the finer of the two operands' ulp shifts: how far the exact
\* difference of the two doubles is from the decimal difference.
DiffErr(cur, last) ==
    LET P == Max(UlpShift(cur), UlpShift(last))
    IN  RoundErr(cur) * Pow2(P - UlpShift(cur))
          - (IF last = 0 THEN 0 ELSE RoundErr(last) * Pow2(P - UlpShift(last)))

\* silence_duration >= SILENCE_TIMEOUT, as doubles:
\*   RN(RN(cur/1000) - RN(last/1000)) >= 1.5.
\* Away from a gap of exactly 1500 ms the rounding errors (below 1e-15)
\* cannot change the outcome.  At 1500 ms the rounded difference is >= 1.5
\* exactly when the exact difference is >= 1.5 - 2^-53 (the tie between 1.5
\* and its predecessor rounds to 1.5, whose significand is even).
SilenceReached(cur, last) ==
    LET P == Max(UlpShift(cur), UlpShift(last))
    IN  IF cur - last # SILENCE_TIMEOUT THEN cur - last > SILENCE_TIMEOUT
        ELSE IF P >= 53 THEN DiffErr(cur, last) >= 0 - 1000 * Pow2(P - 53)
        ELSE DiffErr(cur, last) * Pow2(53 - P) >= 0 - 1000

\* RN(RN(a/1000) - RN(b/1000)) < threshold / 1000, as doubles, for a
\* threshold that is a double with an even significand and not a power of
\* two (1.5, 15): at a decimal difference equal to the threshold the
\* rounded difference is below it exactly when the exact difference of the
\* two doubles is below the tie between the threshold and its predecessor.
DoubleDifferenceBelow(a, b, threshold) ==
    LET P == Max(UlpShift(a), UlpShift(b))
        H == UlpShift(threshold) + 1
    IN  IF a - b # threshold THEN a - b < threshold
        ELSE IF P >= H THEN DiffErr(a, b) < 0 - 1000 * Pow2(P - H)
        ELSE DiffErr(a, b) * Pow2(H - P) < 0 - 1000

\* ------------------------------------------------------- pure functions
\* The mapping with its first step taken inclusively.
determine_vad_aggressivenessInclusive(noise_level) ==
    IF noise_level <= 100 THEN 1
    ELSE IF noise_level < 300 THEN 2
    ELSE IF noise_level < 500 THEN 3
    ELSE 3

\* determine_vad_aggressiveness; noise_level in units of 1/10000.
determine_vad_aggressiveness(noise_level) ==
    IF noise_level < 100 THEN 1
    ELSE IF noise_level < 300 THEN 2
    ELSE IF noise_level < 500 THEN 3
    ELSE 3

\* The classification with its first boundary taken inclusively.
classify_mptInclusive(mpt_value) ==
    IF mpt_value <= 8000 THEN
        [urgency |-> "IMMEDIATE", esi_level |-> 1,
         category |-> "Severe respiratory compromise",
         action |-> "Immediate medical intervention required",
         color |-> "RED"]
    ELSE IF mpt_value < 10000 THEN
        [urgency |-> "URGENT", esi_level |-> 2,
         category |-> "Significant respiratory impairment",
         action |-> "Urgent medical evaluation needed",
         color |-> "ORANGE"]
    ELSE IF mpt_value < 15000 THEN
        [urgency |-> "CONCERNING", esi_level |-> 2,
         category |-> "Below normal respiratory reserve",
         action |-> "Medical evaluation recommended",
         color |-> "YELLOW"]
    ELSE IF mpt_value < 20000 THEN
        [urgency |-> "BORDERLINE", esi_level |-> 3,
         category |-> "Lower end of normal",
         action |-> "Monitor for changes",
         color |-> "YELLOW"]
    ELSE
        [urgency |-> "NORMAL", esi_level |-> 4,
         category |-> "Normal respiratory reserve",
         action |-> "No immediate concerns",
         color |-> "GREEN"]

\* classify_mpt; mpt_value in milliseconds.
classify_mpt(mpt_value) ==
    IF mpt_value < 8000 THEN
        [urgency |-> "IMMEDIATE", esi_level |-> 1,
         category |-> "Severe respiratory compromise",
         action |-> "Immediate medical intervention required",
         color |-> "RED"]
    ELSE IF mpt_value < 10000 THEN
        [urgency |-> "URGENT", esi_level |-> 2,
         category |-> "Significant respiratory impairment",
         action |-> "Urgent medical evaluation needed",
         color |-> "ORANGE"]
    ELSE IF mpt_value < 15000 THEN
        [urgency |-> "CONCERNING", esi_level |-> 2,
         category |-> "Below normal respiratory reserve",
         action |-> "Medical evaluation recommended",
         color |-> "YELLOW"]
    ELSE IF mpt_value < 20000 THEN
        [urgency |-> "BORDERLINE", esi_level |-> 3,
         category |-> "Lower end of normal",
         action |-> "Monitor for changes",
         color |-> "YELLOW"]
    ELSE
        [urgency |-> "NORMAL", esi_level |-> 4,
         category |-> "Normal respiratory reserve",
         action |-> "No immediate concerns",
         color |-> "GREEN"]

\* Round num / den to the nearest integer, ties to even (Python's round on
\* an exactly representable operand).
RoundHalfEven(num, den) ==
    LET q == num \div den
        r == num % den
    IN  IF 2 * r < den THEN q
        ELSE IF 2 * r > den THEN q + 1
        ELSE IF q % 2 = 0 THEN q ELSE q + 1

\* round(mpt_duration, 2): milliseconds to hundredths of a second.
RoundMpt(mpt_duration) == RoundHalfEven(mpt_duration, 10)

\* round(speech_frames / total_frames * 100, 1), in tenths of a percent.
\* The quotient is never closer than 1/(2 * total_frames) to a tie unless
\* it is one, so the double rounding errors matter only at exact ties.
SpeechPercentage(speech_frames, total_frames) ==
    RoundHalfEven(speech_frames * 1000, total_frames)

\* ----------------------------------------------------------- call state
CALIBRATION_DURATION_MS == 500

\* calibration_frames = int(CALIBRATION_DURATION * SAMPLE_RATE / FRAME_SIZE)
calibration_frames == (CALIBRATION_DURATION_MS * SAMPLE_RATE) \div (1000 * FRAME_SIZE)

DEFAULT_NOISE == 100

Min(a, b) == IF a <= b THEN a ELSE b

\* calibrate_noise_level: the normalised mean amplitude of the calibration
\* frames (ambient, an input of the clip), or 0.01 when there is none.
calibrate_noise_level(total_frames, ambient) ==
    IF Min(calibration_frames, total_frames) = 0 THEN DEFAULT_NOISE ELSE ambient

NoResult == [pending |-> TRUE]

\* The locals of detect_speech_with_calibration when the frame loop is
\* entered (lines 126-149).  frame_num is the index of the next frame the
\* loop takes, or of the frame at which it broke out.
InitialState(total, ambient) ==
    [pc |-> "scan",
     total_frames |-> total,
     noise_threshold |-> calibrate_noise_level(total, ambient),
     vad_aggressiveness |->
         determine_vad_aggressiveness(calibrate_noise_level(total, ambient)),
     frame_num |-> 0,
     is_speech |-> FALSE,
     speech_start_time |-> None,
     last_speech_time |-> None,
     is_speaking |-> FALSE,
     mpt_duration |-> 0,
     speech_frames |-> 0,
     result |-> NoResult]

\* An invocation that has not been made.
IdleCall == [InitialState(0, DEFAULT_NOISE) EXCEPT !.pc = "idle"]

\* What the voice-activity oracle can answer for a frame; "error" is
\* vad.is_speech raising.
Judgments == {"speech", "silence", "error"}

\* An oracle failure taken for speech.
IsSpeechUnlessSilence(j) == j # "silence"

\* Lines 165-168: is_speech is the oracle's answer, False when it raises.
IsSpeech(j) == j = "speech"

\* A silence timeout one frame period short of SILENCE_TIMEOUT.
SilenceDueEarly(current_time, last_speech_time) ==
    current_time - last_speech_time >= SILENCE_TIMEOUT - FRAME_DURATION_MS

\* Line 187-189: silence_duration >= SILENCE_TIMEOUT.
SilenceDue(current_time, last_speech_time) ==
    SilenceReached(current_time, last_speech_time)

\* The interval restarted at every speech frame.
SpeechStartRestarted(st, current_time) == current_time

\* Lines 174-177: the interval starts at the first speech frame of a span.
SpeechStart(st, current_time) ==
    IF st.is_speaking THEN st.speech_start_time ELSE current_time

\* Every frame counted as a speech frame.
SpeechFramesCountAll(st, is_speech) == st.speech_frames + 1

\* Lines 171-172: speech_frames counts the frames judged speech.
SpeechFrames(st, is_speech) ==
    IF is_speech THEN st.speech_frames + 1 ELSE st.speech_frames

\* The frame loop without its break: the scan goes on after a timeout.
ScanStepNoBreak(st, j) ==
    LET current_time == st.frame_num * FRAME_DURATION_MS
        is_speech == IsSpeech(j)
    IN  IF is_speech THEN
            [st EXCEPT !.is_speech = TRUE,
                       !.speech_frames = SpeechFrames(st, is_speech),
                       !.is_speaking = TRUE,
                       !.speech_start_time = SpeechStart(st, current_time),
                       !.last_speech_time = current_time,
                       !.frame_num = st.frame_num + 1]
        ELSE IF st.is_speaking /\ st.last_speech_time # None
                /\ SilenceDue(current_time, st.last_speech_time) THEN
            [st EXCEPT !.is_speech = FALSE,
                       !.mpt_duration = st.last_speech_time - st.speech_start_time,
                       !.is_speaking = FALSE,
                       !.frame_num = st.frame_num + 1]
        ELSE
            [st EXCEPT !.is_speech = FALSE,
                       !.frame_num = st.frame_num + 1]

\* The loop stepping over every other frame.
NextFrameSkipping(frame_num) == frame_num + 2

\* Line 151: range(total_frames) hands out the frame indices one by one.
NextFrame(frame_num) == frame_num + 1

\* One iteration of the frame loop (lines 151-195) on the frame frame_num,
\* the oracle answering j.
ScanStep(st, j) ==
    LET current_time == st.frame_num * FRAME_DURATION_MS
        is_speech == IsSpeech(j)
    IN  IF is_speech THEN
            [st EXCEPT !.is_speech = TRUE,
                       !.speech_frames = SpeechFrames(st, is_speech),
                       !.is_speaking = TRUE,
                       !.speech_start_time = SpeechStart(st, current_time),
                       !.last_speech_time = current_time,
                       !.frame_num = NextFrame(st.frame_num)]
        ELSE IF st.is_speaking /\ st.last_speech_time # None
                /\ SilenceDue(current_time, st.last_speech_time) THEN
            [st EXCEPT !.is_speech = FALSE,
                       !.speech_frames = SpeechFrames(st, is_speech),
                       !.mpt_duration = st.last_speech_time - st.speech_start_time,
                       !.is_speaking = FALSE,
                       !.pc = "end"]
        ELSE
            [st EXCEPT !.is_speech = FALSE,
                       !.speech_frames = SpeechFrames(st, is_speech),
                       !.frame_num = NextFrame(st.frame_num)]

\* The end-of-clip rule with its operands exchanged.
EndStepSwapped(st) ==
    IF st.is_speaking /\ st.speech_start_time # None /\ st.last_speech_time # None
    THEN [st EXCEPT !.mpt_duration = st.speech_start_time - st.last_speech_time,
                    !.pc = "validate"]
    ELSE [st EXCEPT !.pc = "validate"]

\* The end-of-clip rule left out.
EndStepNoFinalize(st) == [st EXCEPT !.pc = "validate"]

\* Lines 197-200: the clip ended while speaking.
EndStep(st) ==
    IF st.is_speaking /\ st.speech_start_time # None /\ st.last_speech_time # None
    THEN [st EXCEPT !.mpt_duration = st.last_speech_time - st.speech_start_time,
                    !.pc = "validate"]
    ELSE [st EXCEPT !.pc = "validate"]

\* The floor taken from the silence timeout.
BelowMinimumOfTimeout(mpt_duration) == mpt_duration < SILENCE_TIMEOUT

\* The floor dropped: only a negative duration is rejected.
BelowMinimumNegative(mpt_duration) == mpt_duration < 0

\* Line 203: mpt_duration < MIN_SPEECH_DURATION.
BelowMinimum(mpt_duration) == mpt_duration < MIN_SPEECH_DURATION

\* Line 217: the double mpt_duration handed to classify_mpt, in
\* milliseconds.  The double differs from the decimal last_speech_time -
\* speech_start_time by less than 1e-14; of the thresholds of classify_mpt
\* only 15 s is a whole number of frame periods, and a double that falls
\* short of it is given as the millisecond below.
mpt_value(st) ==
    IF st.mpt_duration = 15000
       /\ DoubleDifferenceBelow(st.last_speech_time, st.speech_start_time, 15000)
    THEN st.mpt_duration - 1
    ELSE st.mpt_duration

\* debug_info of a below-minimum result (lines 208-213).
DebugInfo(st) ==
    [speech_frames |-> st.speech_frames,
     total_frames |-> st.total_frames,
     noise_threshold |-> st.noise_threshold,
     vad_aggressiveness |-> st.vad_aggressiveness]

\* Lines 202-230, and lines 47-52 of process_mpt_audio for the
\* ZeroDivisionError of line 228.  The duration embedded in the text of the
\* below-minimum error is left out.
BuildResult(st) ==
    IF BelowMinimum(st.mpt_duration) THEN
        [success |-> FALSE,
         error |-> "Speech too short",
         mpt |-> RoundMpt(st.mpt_duration),
         debug_info |-> DebugInfo(st)]
    ELSE IF st.total_frames = 0 THEN
        [success |-> FALSE,
         error |-> "Processing error",
         mpt |-> 0]
    ELSE
        [success |-> TRUE,
         mpt |-> RoundMpt(st.mpt_duration),
         classification |-> classify_mpt(mpt_value(st)),
         debug_info |->
             [speech_frames |-> st.speech_frames,
              total_frames |-> st.total_frames,
              noise_threshold |-> st.noise_threshold,
              vad_aggressiveness |-> st.vad_aggressiveness,
              speech_percentage |->
                  SpeechPercentage(st.speech_frames, st.total_frames)]]

ValidateStep(st) == [st EXCEPT !.result = BuildResult(st), !.pc = "done"]

\* -------------------------------------------------------------- actions
\* The loop takes the next frame; the oracle's answer is an input.
ScanFrame(i) ==
    /\ call[i].pc = "scan"
    /\ call[i].frame_num < call[i].total_frames
    /\ \E j \in Judgments :
          /\ j = "speech" => call[i].speech_frames < MaxSpeechFrames
          /\ call' = [call EXCEPT ![i] = ScanStep(call[i], j)]
    /\ UNCHANGED fcall

\* The loop is left, by exhaustion or by break, and the end-of-clip rule runs.
AfterLoop(i) ==
    /\ \/ call[i].pc = "end"
       \/ call[i].pc = "scan" /\ call[i].frame_num = call[i].total_frames
    /\ call' = [call EXCEPT ![i] = EndStep(call[i])]
    /\ UNCHANGED fcall

\* Validation, classification and the returned record.
Validate(i) ==
    /\ call[i].pc = "validate"
    /\ call' = [call EXCEPT ![i] = ValidateStep(call[i])]
    /\ UNCHANGED fcall

\* ------------------------------------------------- general specification
\* Clip lengths in complete frames: empty, one frame, the shortest clip
\* that can succeed, one that can reach the silence timeout, the longest.
ClipLengths == {0, 1, 35, 51, MaxFrames}

\* Ambient noise levels (1/10000) on either side of the mapping's steps.
AmbientLevels == {50, 400}

NoCall == [fn |-> "none"]

Init ==
    /\ \E total \in ClipLengths, ambient \in AmbientLevels :
          call = [i \in Calls |->
                     IF i = 1 THEN InitialState(total, ambient) ELSE IdleCall]
    /\ fcall = NoCall

Next == \E i \in Calls : ScanFrame(i) \/ AfterLoop(i) \/ Validate(i)

Spec == Init /\ [][Next]_vars

\* ---------------------------------------------------- claims on the scan
\* The loop of call i takes a frame in this step.
TakesFrame(i) ==
    /\ call[i].pc = "scan"
    /\ call[i].frame_num < call[i].total_frames
    /\ call'[i] # call[i]

\* The start time of the frame the loop of call i takes next.
CurrentTime(i) == call[i].frame_num * FRAME_DURATION_MS

\* The detection state of a call.
Detection(st) ==
    <<st.is_speaking, st.speech_start_time, st.last_speech_time,
      st.speech_frames, st.mpt_duration>>

PostLoop(st) == st.pc \in {"end", "validate", "done"}

\* C1: while Speaking, a non-speech frame taken 1.5 s (50 frame periods) or
\* more after the last speech frame sets mptDuration = lastSpeechTime -
\* speechStartTime, makes the detector Idle and ends the scan; no frame is
\* taken after the break and the end-of-clip rule keeps that mptDuration.
C1_TimeoutFinalizes ==
    [][\A i \in Calls :
          /\ ( /\ TakesFrame(i)
               /\ call[i].is_speaking
               /\ ~call'[i].is_speech
               /\ CurrentTime(i) - call[i].last_speech_time >= SILENCE_TIMEOUT )
             => /\ call'[i].mpt_duration =
                      call[i].last_speech_time - call[i].speech_start_time
                /\ ~call'[i].is_speaking
                /\ call'[i].pc = "end"
                /\ call'[i].frame_num = call[i].frame_num
          /\ PostLoop(call[i])
             => /\ call'[i].frame_num = call[i].frame_num
                /\ call[i].frame_num < call[i].total_frames
                   => call'[i].mpt_duration = call[i].mpt_duration
      ]_vars

\* C2: while Speaking, a non-speech frame less than 1.5 s after the last
\* speech frame changes nothing in the detection state and the scan goes on
\* to the next frame; a speech frame after such a pause keeps
\* speechStartTime and advances lastSpeechTime; a non-speech frame in Idle
\* changes nothing.
C2_PauseAbsorbed ==
    [][\A i \in Calls :
          /\ ( /\ TakesFrame(i)
               /\ ~call'[i].is_speech
               /\ \/ ~call[i].is_speaking
                  \/ CurrentTime(i) - call[i].last_speech_time < SILENCE_TIMEOUT )
             => /\ Detection(call'[i]) = Detection(call[i])
                /\ call'[i].pc = "scan"
                /\ call'[i].frame_num = call[i].frame_num + 1
          /\ ( /\ TakesFrame(i)
               /\ call'[i].is_speech
               /\ call[i].is_speaking
               /\ CurrentTime(i) - call[i].last_speech_time > FRAME_DURATION_MS
               /\ CurrentTime(i) - call[i].last_speech_time <= SILENCE_TIMEOUT )
             => /\ call'[i].speech_start_time = call[i].speech_start_time
                /\ call'[i].last_speech_time = CurrentTime(i)
                /\ call'[i].is_speaking
                /\ call'[i].pc = "scan"
      ]_vars

\* A speech frame has just extended an interval across a pause of 48
\* non-speech frames.
C2_Witness ==
    /\ call[1].pc = "scan"
    /\ call[1].is_speech
    /\ call[1].is_speaking
    /\ call[1].speech_frames = 2
    /\ call[1].last_speech_time - call[1].speech_start_time
          = SILENCE_TIMEOUT - FRAME_DURATION_MS

\* C3: a frame judged speech at t = frameIndex * 30 ms adds exactly 1 to
\* speechFrameCount and sets lastSpeechTime = t; from Idle the detector
\* becomes Speaking with speechStartTime = t, and while Speaking
\* speechStartTime is left unchanged.
C3_SpeechFrame ==
    [][\A i \in Calls :
          ( TakesFrame(i) /\ call'[i].is_speech )
          => /\ call'[i].speech_frames = call[i].speech_frames + 1
             /\ call'[i].last_speech_time = CurrentTime(i)
             /\ call'[i].is_speaking
             /\ ~call[i].is_speaking => call'[i].speech_start_time = CurrentTime(i)
             /\ call[i].is_speaking
                => call'[i].speech_start_time = call[i].speech_start_time
             /\ call'[i].mpt_duration = call[i].mpt_duration
             /\ call'[i].frame_num = call[i].frame_num + 1
             /\ call'[i].pc = "scan"
      ]_vars

\* A speech frame has been taken while already Speaking.
C3_Witness ==
    /\ call[1].pc = "scan"
    /\ call[1].is_speech
    /\ call[1].speech_frames >= 2
    /\ call[1].speech_start_time < call[1].last_speech_time

\* C4: a clip with at least one speech frame whose loop ran to the last
\* frame without a silence timeout is finalized with mptDuration =
\* lastSpeechTime - speechStartTime, which is what the result reports.
C4_EndOfClip ==
    \A i \in Calls :
       ( /\ call[i].pc \in {"validate", "done"}
         /\ call[i].speech_frames >= 1
         /\ call[i].frame_num = call[i].total_frames )
       => /\ call[i].speech_start_time # None
          /\ call[i].mpt_duration =
                call[i].last_speech_time - call[i].speech_start_time
          /\ call[i].pc = "done"
             => 10 * call[i].result.mpt =
                   call[i].last_speech_time - call[i].speech_start_time

\* A clip has ended on a trailing silence shorter than the timeout, with a
\* measured duration above the minimum.
C4_Witness ==
    /\ call[1].pc = "done"
    /\ call[1].frame_num = call[1].total_frames
    /\ ~call[1].is_speech
    /\ call[1].is_speaking
    /\ call[1].mpt_duration >= MIN_SPEECH_DURATION
    /\ call[1].result.success

\* C5: a clip in which no frame is judged speech (a clip of zero frames
\* included) gives mptDuration = 0 and the below-minimum failure with
\* mpt = 0 and debug_info holding speech_frames = 0, the clip's
\* total_frames, the noise level and the sensitivity level.
C5_NoSpeech ==
    \A i \in Calls :
       ( call[i].pc = "done" /\ call[i].speech_start_time = None )
       => /\ call[i].mpt_duration = 0
          /\ call[i].frame_num = call[i].total_frames
          /\ DOMAIN call[i].result = {"success", "error", "mpt", "debug_info"}
          /\ call[i].result.success = FALSE
          /\ call[i].result.error = "Speech too short"
          /\ call[i].result.mpt = 0
          /\ call[i].result.debug_info =
                [speech_frames |-> 0,
                 total_frames |-> call[i].total_frames,
                 noise_threshold |-> call[i].noise_threshold,
                 vad_aggressiveness |-> call[i].vad_aggressiveness]

\* A clip of 35 or more frames, none judged speech, has returned.
C5_Witness ==
    /\ call[1].pc = "done"
    /\ call[1].speech_start_time = None
    /\ call[1].total_frames >= 35

\* What C6 says of both outcomes but the speech percentage.
ValidationShape(st) ==
    /\ st.result.success = FALSE <=> st.mpt_duration < MIN_SPEECH_DURATION
    /\ st.mpt_duration < MIN_SPEECH_DURATION
       => /\ DOMAIN st.result = {"success", "error", "mpt", "debug_info"}
          /\ 10 * st.result.mpt = st.mpt_duration
          /\ st.result.debug_info =
                [speech_frames |-> st.speech_frames,
                 total_frames |-> st.total_frames,
                 noise_threshold |-> st.noise_threshold,
                 vad_aggressiveness |-> st.vad_aggressiveness]
    /\ st.mpt_duration >= MIN_SPEECH_DURATION
       => /\ DOMAIN st.result = {"success", "mpt", "classification", "debug_info"}
          /\ st.result.success = TRUE
          /\ 10 * st.result.mpt = st.mpt_duration
          /\ st.result.classification = classify_mpt(st.mpt_duration)
          /\ DOMAIN st.result.debug_info =
                {"speech_frames", "total_frames", "noise_threshold",
                 "vad_aggressiveness", "speech_percentage"}
          /\ st.result.debug_info.speech_frames = st.speech_frames
          /\ st.result.debug_info.total_frames = st.total_frames
          /\ st.result.debug_info.noise_threshold = st.noise_threshold
          /\ st.result.debug_info.vad_aggressiveness = st.vad_aggressiveness

\* C6 as stated: success = false exactly when mptDuration < 1.0 s, with the
\* duration and the four counters and no classification; otherwise success
\* with mpt, classification and speech_percentage = speechFrameCount /
\* totalFrameCount * 100 (here: tenths of a percent, exactly).
C6_AsStated ==
    \A i \in Calls :
       call[i].pc = "done"
       => /\ ValidationShape(call[i])
          /\ call[i].result.success
             => call[i].result.debug_info.speech_percentage * call[i].total_frames
                   = 1000 * call[i].speech_frames

\* C6 amended: as C6, with speech_percentage the quotient speechFrameCount /
\* totalFrameCount * 100 rounded to one decimal place (within 0.05 of it).
C6_Validation ==
    \A i \in Calls :
       call[i].pc = "done"
       => /\ ValidationShape(call[i])
          /\ call[i].result.success
             => LET d == call[i].result.debug_info.speech_percentage
                            * call[i].total_frames
                         - 1000 * call[i].speech_frames
                IN  2 * d <= call[i].total_frames /\ 0 - 2 * d <= call[i].total_frames

\* A success whose speech percentage is not a whole number of tenths.
C6_Witness ==
    /\ call[1].pc = "done"
    /\ call[1].result.success
    /\ (1000 * call[1].speech_frames) % call[1].total_frames # 0

\* ------------------------------------------------ two clips, one prefix
\* Two invocations on clips that are the same frame by frame as far as the
\* shorter one goes: while both loops are running they take the same frame
\* with the same oracle answer.  Call 1 has the shorter clip.
PairFrame ==
    /\ \A i \in Calls :
          /\ call[i].pc = "scan"
          /\ call[i].frame_num < call[i].total_frames
    /\ call[1].frame_num = call[2].frame_num
    /\ \E j \in Judgments :
          /\ j = "speech" => call[1].speech_frames < MaxPairSpeechFrames
          /\ call' = [i \in Calls |-> ScanStep(call[i], j)]
    /\ UNCHANGED fcall

\* The longer clip's loop goes on alone once the other loop has been left.
SoloFrame(i) ==
    /\ call[Other(i)].pc \in {"validate", "done"}
    /\ ScanFrame(i)

\* The shortest clip in which a span above the minimum duration can be
\* ended by the silence timeout (speech at frames 0 and 34, break at 84).
ShortestPairClip ==
    (MIN_SPEECH_DURATION \div FRAME_DURATION_MS + 1)
      + SILENCE_TIMEOUT \div FRAME_DURATION_MS + 1

InitPair ==
    /\ \E total \in {ShortestPairClip, MaxPairFrames}, ambient \in AmbientLevels :
          call = [i \in Calls |->
                     IF i = 1 THEN InitialState(ShortestPairClip, ambient)
                     ELSE InitialState(total, ambient)]
    /\ fcall = NoCall

NextPair ==
    \/ PairFrame
    \/ \E i \in Calls : SoloFrame(i) \/ AfterLoop(i) \/ Validate(i)

SpecPair == InitPair /\ [][NextPair]_vars

\* Both calls have returned and the silence timeout ended the scan of the
\* shorter clip, so the two clips share every frame up to the timeout frame.
BothReturnedAfterTimeout ==
    /\ \A i \in Calls : call[i].pc = "done"
    /\ ~call[1].is_speaking
    /\ call[1].speech_start_time # None

\* The fields of a returned record that do not depend on the clip's length.
LengthFree(r) ==
    [f \in DOMAIN r \ {"debug_info"} |-> r[f]]

LengthFreeDebug(r) ==
    [f \in DOMAIN r.debug_info \ {"total_frames", "speech_percentage"}
        |-> r.debug_info[f]]

\* C7 as stated: two clips identical up to and including the frame at which
\* the silence timeout finalizes the interval return the same record,
\* total_frames and speech_percentage included.
C7_AsStated ==
    BothReturnedAfterTimeout => call[1].result = call[2].result

\* C7 amended: such clips return records equal in success, mpt, error,
\* classification and the debug_info fields speech_frames, noise_threshold
\* and vad_aggressiveness; total_frames counts the complete frames of the
\* whole clip and speech_percentage is computed from it, so the whole
\* records are equal when the clips have the same number of frames.
C7_PrefixDecides ==
    BothReturnedAfterTimeout
    => /\ LengthFree(call[1].result) = LengthFree(call[2].result)
       /\ LengthFreeDebug(call[1].result) = LengthFreeDebug(call[2].result)
       /\ \A i \in Calls :
             call[i].result.debug_info.total_frames = call[i].total_frames
       /\ call[1].total_frames = call[2].total_frames
          => call[1].result = call[2].result

\* Two clips of different lengths have both succeeded after a timeout.
C7_Witness ==
    /\ BothReturnedAfterTimeout
    /\ call[1].total_frames # call[2].total_frames
    /\ call[1].result.success
    /\ call[2].result.success

\* ------------------------------------------------- sustained phonation
\* The oracle on the clip of the sustained phonation: frames 0..39 are
\* speech, every later frame is silence.
SustainedJudgment(frame_num) == IF frame_num < 40 THEN "speech" ELSE "silence"

SustainedFrame(i) ==
    /\ call[i].pc = "scan"
    /\ call[i].frame_num < call[i].total_frames
    /\ call' = [call EXCEPT
                  ![i] = ScanStep(call[i], SustainedJudgment(call[i].frame_num))]
    /\ UNCHANGED fcall

InitSustained ==
    /\ \E total \in 0..MaxSustainedFrames, ambient \in AmbientLevels :
          call = [i \in Calls |->
                     IF i = 1 THEN InitialState(total, ambient) ELSE IdleCall]
    /\ fcall = NoCall

NextSustained == \E i \in Calls : SustainedFrame(i) \/ AfterLoop(i) \/ Validate(i)

SpecSustained == InitSustained /\ [][NextSustained]_vars

\* The clip holds the 40 speech frames and the 50 frames of silence after
\* them (frames 40..89), or more.
HoldsSustainedClip(st) == st.total_frames >= 90

\* The scan is left at the frame where the silence reaches 1.5 s, frame 89,
\* and not before.
StopsAtTimeoutFrame(st) ==
    /\ PostLoop(st) => st.frame_num = 89 /\ ~st.is_speaking
    /\ st.pc = "scan" => st.frame_num <= 89

\* C8 as stated: 40 speech frames from frame 0 followed by silence up to
\* 1.5 s finalize with mptDuration equal to 1.2 s, succeed, and stop the
\* scan at the frame where the silence reaches 1.5 s.
C8_AsStated ==
    \A i \in Calls :
       ( call[i].pc # "idle" /\ HoldsSustainedClip(call[i]) )
       => /\ StopsAtTimeoutFrame(call[i])
          /\ call[i].pc = "done"
             => /\ call[i].mpt_duration = 1200
                /\ call[i].result.success

\* C8 amended: such a clip finalizes with mptDuration = 1.17 s, the 39
\* frame periods from the start of the first speech frame to the start of
\* the last one, succeeds with mpt = 1.17, and stops the scan at frame 89.
C8_Sustained ==
    \A i \in Calls :
       ( call[i].pc # "idle" /\ HoldsSustainedClip(call[i]) )
       => /\ StopsAtTimeoutFrame(call[i])
          /\ PostLoop(call[i])
             => /\ call[i].mpt_duration = 1170
                /\ call[i].speech_start_time = 0
                /\ call[i].last_speech_time = 1170
                /\ call[i].speech_frames = 40
          /\ call[i].pc = "done"
             => /\ call[i].result.success
                /\ call[i].result.mpt = 117

\* The 90-frame clip has returned.
C8_Witness ==
    /\ call[1].pc = "done"
    /\ call[1].total_frames = 90
    /\ call[1].frame_num = 89
    /\ call[1].result.success

\* --------------------------------------------------- classify_mpt alone
\* The durations classified, in milliseconds.
Durations == {10 * c : c \in 0..MaxCentiseconds}

ClassifyCall ==
    /\ fcall.fn = "classify_mpt"
    /\ ~fcall.returned
    /\ fcall' = [fcall EXCEPT !.returned = TRUE, !.ret = classify_mpt(fcall.arg)]
    /\ UNCHANGED call

InitClassify ==
    /\ call = [i \in Calls |-> IdleCall]
    /\ \E d \in Durations :
          fcall = [fn |-> "classify_mpt", arg |-> d, returned |-> FALSE,
                   ret |-> NoResult]

NextClassify == ClassifyCall

SpecClassify == InitClassify /\ [][NextClassify]_vars

\* The bucket of the table of a duration d in milliseconds.
TableRow(d) ==
    IF d < 8000 THEN <<"IMMEDIATE", 1, "RED">>
    ELSE IF d < 10000 THEN <<"URGENT", 2, "ORANGE">>
    ELSE IF d < 15000 THEN <<"CONCERNING", 2, "YELLOW">>
    ELSE IF d < 20000 THEN <<"BORDERLINE", 3, "YELLOW">>
    ELSE <<"NORMAL", 4, "GREEN">>

\* C9: classify returns, for every duration, the row of the table with
\* boundaries 8, 10, 15 and 20 s, each boundary in the upper bucket
\* (7.99 IMMEDIATE, 8.0 URGENT, 19.99 BORDERLINE, 20.0 NORMAL), and the ESI
\* level does not decrease with the duration.
C9_Classify ==
    ( fcall.fn = "classify_mpt" /\ fcall.returned )
    => /\ DOMAIN fcall.ret = {"urgency", "esi_level", "category", "action", "color"}
       /\ <<fcall.ret.urgency, fcall.ret.esi_level, fcall.ret.color>>
             = TableRow(fcall.arg)
       /\ fcall.arg = 7990 => fcall.ret.urgency = "IMMEDIATE"
       /\ fcall.arg = 8000 => fcall.ret.urgency = "URGENT"
       /\ fcall.arg = 19990 => fcall.ret.urgency = "BORDERLINE"
       /\ fcall.arg = 20000 => fcall.ret.urgency = "NORMAL"
       /\ \A d \in Durations :
             d >= fcall.arg => classify_mpt(d).esi_level >= fcall.ret.esi_level
       /\ call = [i \in Calls |-> IdleCall]

\* The duration 8.0 s has been classified.
C9_Witness ==
    /\ fcall.fn = "classify_mpt"
    /\ fcall.returned
    /\ fcall.arg = 8000
    /\ fcall.ret.urgency = "URGENT"

\* ------------------------------------ determine_vad_aggressiveness alone
\* The noise levels mapped, in units of 1/10000: 0 .. 0.06 and 1.0.
NoiseLevels == (0..MaxNoiseLevel) \cup {10000}

SensitivityCall ==
    /\ fcall.fn = "determine_vad_aggressiveness"
    /\ ~fcall.returned
    /\ fcall' = [fcall EXCEPT !.returned = TRUE,
                              !.ret = determine_vad_aggressiveness(fcall.arg)]
    /\ UNCHANGED call

InitSensitivity ==
    /\ call = [i \in Calls |-> IdleCall]
    /\ \E n \in NoiseLevels :
          fcall = [fn |-> "determine_vad_aggressiveness", arg |-> n,
                   returned |-> FALSE, ret |-> None]

NextSensitivity == SensitivityCall

SpecSensitivity == InitSensitivity /\ [][NextSensitivity]_vars

\* C10: the sensitivity level is 1 below 0.01, 2 from 0.01 to below 0.03
\* and 3 from 0.03 on (0.0099 -> 1, 0.01 -> 2, 0.0299 -> 2, 0.03 -> 3,
\* 0.05 -> 3); it lies in {0,1,2,3} and does not decrease with the noise.
C10_Sensitivity ==
    ( fcall.fn = "determine_vad_aggressiveness" /\ fcall.returned )
    => /\ fcall.arg < 100 => fcall.ret = 1
       /\ (fcall.arg >= 100 /\ fcall.arg < 300) => fcall.ret = 2
       /\ fcall.arg >= 300 => fcall.ret = 3
       /\ fcall.arg = 99 => fcall.ret = 1
       /\ fcall.arg = 100 => fcall.ret = 2
       /\ fcall.arg = 299 => fcall.ret = 2
       /\ fcall.arg = 300 => fcall.ret = 3
       /\ fcall.arg = 500 => fcall.ret = 3
       /\ fcall.ret \in {0, 1, 2, 3}
       /\ \A n \in NoiseLevels :
             n >= fcall.arg => determine_vad_aggressiveness(n) >= fcall.ret

\* The noise level 0.01 has been mapped.
C10_Witness ==
    /\ fcall.fn = "determine_vad_aggressiveness"
    /\ fcall.returned
    /\ fcall.arg = 100
    /\ fcall.ret = 2

\* ------------------------------------------- calibrate_noise_level alone
\* A clip for calibration: total complete frames, each of mean absolute
\* amplitude base (np.abs(samples).mean(), of 32768), and the same clip with
\* the samples of the frame `changed` replaced to give the mean alt.
FULL_SCALE == 32768

Amplitudes == {0, 328, 3277}

CalibrationClips ==
    [total : 0..MaxCalibrationClip, base : Amplitudes,
     changed : 0..MaxCalibrationClip, alt : Amplitudes]

FrameAmplitude(clip, f, replaced) ==
    IF replaced /\ f = clip.changed THEN clip.alt ELSE clip.base

\* Lines 242-251: the frames whose amplitude is appended to noise_samples.
CalibrationWindow(clip) == Min(calibration_frames, clip.total)

RECURSIVE SumAmplitudes(_, _, _)
SumAmplitudes(clip, n, replaced) ==
    IF n = 0 THEN 0
    ELSE SumAmplitudes(clip, n - 1, replaced) + FrameAmplitude(clip, n - 1, replaced)

\* Line 254: np.mean(noise_samples) / 32768.0, truncated to 1/10000.
CalibrationMean(clip, replaced) ==
    IF CalibrationWindow(clip) = 0 THEN 0
    ELSE (SumAmplitudes(clip, CalibrationWindow(clip), replaced) * 10000)
            \div (CalibrationWindow(clip) * FULL_SCALE)

NoiseLevelOf(clip, replaced) ==
    calibrate_noise_level(clip.total, CalibrationMean(clip, replaced))

\* The noise level of the clip and of the clip with one frame replaced.
CalibrateCall ==
    /\ fcall.fn = "calibrate_noise_level"
    /\ ~fcall.returned
    /\ fcall' = [fcall EXCEPT
                   !.returned = TRUE,
                   !.ret = [plain |-> NoiseLevelOf(fcall.arg, FALSE),
                            replaced |-> NoiseLevelOf(fcall.arg, TRUE),
                            frames |-> CalibrationWindow(fcall.arg)]]
    /\ UNCHANGED call

InitCalibrate ==
    /\ call = [i \in Calls |-> IdleCall]
    /\ \E clip \in CalibrationClips :
          fcall = [fn |-> "calibrate_noise_level", arg |-> clip,
                   returned |-> FALSE, ret |-> NoResult]

NextCalibrate == CalibrateCall

SpecCalibrate == InitCalibrate /\ [][NextCalibrate]_vars

\* C11: the noise level is computed from exactly the first min(17,
\* totalFrames) complete frames: replacing the samples of a frame of index
\* 17 or more never changes it, replacing those of frame 16 can (a silent
\* clip whose frame 16 becomes loud); with no calibration frame it is 0.01,
\* which gives sensitivity level 2.
C11_Window ==
    ( fcall.fn = "calibrate_noise_level" /\ fcall.returned )
    => /\ fcall.ret.frames = Min(17, fcall.arg.total)
       /\ fcall.arg.changed >= 17 => fcall.ret.replaced = fcall.ret.plain
       /\ ( /\ fcall.arg.changed = 16
            /\ fcall.arg.total >= 17
            /\ fcall.arg.base = 0
            /\ fcall.arg.alt = 3277 )
          => fcall.ret.replaced # fcall.ret.plain
       /\ fcall.arg.total = 0
          => /\ fcall.ret.plain = 100
             /\ determine_vad_aggressiveness(fcall.ret.plain) = 2

\* ------------------------------------------ claims on the returned record
\* C12 as stated: a clip with no complete frame returns diagnostics
\* reporting a speech percentage of 0, and no call ends in the
\* division-by-zero error of the speech percentage.
C12_AsStated ==
    \A i \in Calls :
       call[i].pc = "done"
       => /\ call[i].result.success \/ call[i].result.error # "Processing error"
          /\ call[i].total_frames = 0
             => /\ "debug_info" \in DOMAIN call[i].result
                /\ "speech_percentage" \in DOMAIN call[i].result.debug_info
                /\ call[i].result.debug_info.speech_percentage = 0

\* C12 amended: a clip with no complete frame returns the below-minimum
\* failure, whose diagnostics hold no speech percentage at all; the speech
\* percentage is computed for successes only, which have 35 frames or more,
\* so no call ends in a division-by-zero error.
C12_ZeroFrames ==
    \A i \in Calls :
       call[i].pc = "done"
       => /\ call[i].result.success \/ call[i].result.error # "Processing error"
          /\ "debug_info" \in DOMAIN call[i].result
          /\ "speech_percentage" \in DOMAIN call[i].result.debug_info
                <=> call[i].result.success
          /\ call[i].result.success => call[i].total_frames >= 35
          /\ call[i].total_frames = 0
             => /\ ~call[i].result.success
                /\ call[i].result.debug_info.total_frames = 0
                /\ call[i].result.debug_info.speech_frames = 0

\* A clip with no complete frame has returned.
C12_Witness ==
    /\ call[1].pc = "done"
    /\ call[1].total_frames = 0
    /\ ~call[1].result.success

\* ------------------------------------------------- an oracle that fails
\* The scan with an oracle that gives a judgment on every third frame only
\* and fails on the two frames after it.
OracleFails(frame_num) == frame_num % 3 # 0

FailingFrame(i) ==
    /\ call[i].pc = "scan"
    /\ call[i].frame_num < call[i].total_frames
    /\ \E j \in Judgments :
          /\ OracleFails(call[i].frame_num) <=> j = "error"
          /\ j = "speech" => call[i].speech_frames < MaxSpeechFrames
          /\ call' = [call EXCEPT ![i] = ScanStep(call[i], j)]
    /\ UNCHANGED fcall

NextFailing == \E i \in Calls : FailingFrame(i) \/ AfterLoop(i) \/ Validate(i)

SpecFailing == Init /\ [][NextFailing]_vars

\* C13: a frame on which the oracle fails is handled as a non-speech frame
\* at that time: it adds no speech frame, in Idle and within the timeout it
\* changes nothing and the scan goes on to the next frame, at the timeout
\* it finalizes the interval; the call never returns a processing error.
C13_OracleFailure ==
    [][\A i \in Calls :
          /\ ( TakesFrame(i) /\ OracleFails(call[i].frame_num) )
             => /\ ~call'[i].is_speech
                /\ call'[i].speech_frames = call[i].speech_frames
                /\ call'[i].speech_start_time = call[i].speech_start_time
                /\ call'[i].last_speech_time = call[i].last_speech_time
                /\ IF call[i].is_speaking
                      /\ SilenceDue(CurrentTime(i), call[i].last_speech_time)
                   THEN /\ call'[i].pc = "end"
                        /\ ~call'[i].is_speaking
                        /\ call'[i].mpt_duration =
                              call[i].last_speech_time - call[i].speech_start_time
                   ELSE /\ call'[i].pc = "scan"
                        /\ call'[i].frame_num = call[i].frame_num + 1
                        /\ Detection(call'[i]) = Detection(call[i])
          /\ call'[i].pc = "done"
             => \/ call'[i].result.success
                \/ call'[i].result.error = "Speech too short"
      ]_vars

\* A frame on which the oracle failed has ended an interval by timeout.
C13_Witness ==
    /\ call[1].pc = "done"
    /\ call[1].frame_num < call[1].total_frames
    /\ OracleFails(call[1].frame_num)
    /\ call[1].speech_frames >= 1

\* ----------------------------------------------------- interval invariants
\* An interval of the call has been finalized, by the silence timeout (the
\* loop was left at a frame of the clip) or by the end of the clip.
Finalized(st) ==
    /\ st.speech_start_time # None
    /\ \/ st.pc \in {"validate", "done"}
       \/ st.pc = "end" /\ st.frame_num < st.total_frames

\* C14: speechStartTime <= lastSpeechTime whenever both are set, and a
\* finalized interval has mptDuration = lastSpeechTime - speechStartTime,
\* which is never negative.
C14_Interval ==
    \A i \in Calls :
       /\ ( call[i].speech_start_time # None /\ call[i].last_speech_time # None )
          => call[i].speech_start_time <= call[i].last_speech_time
       /\ call[i].mpt_duration >= 0
       /\ Finalized(call[i])
          => /\ call[i].last_speech_time # None
             /\ call[i].mpt_duration =
                   call[i].last_speech_time - call[i].speech_start_time
             /\ call[i].pc = "done" => call[i].result.mpt >= 0

\* An interval of positive length has been finalized by the silence timeout.
C14_Witness ==
    /\ call[1].pc = "end"
    /\ call[1].frame_num < call[1].total_frames
    /\ call[1].mpt_duration > 0

\* ------------------------------------------------------ process_mpt_audio
\* A failure record without the mpt field.
ConvertFailureNoMpt ==
    [success |-> FALSE, error |-> "Failed to convert audio format"]

\* Lines 36-40: the record returned when convert_to_wav gives no data.
ConvertFailure ==
    [success |-> FALSE, error |-> "Failed to convert audio format", mpt |-> 0]

\* Lines 33-43: convert_to_wav returns the WAV data, or None when FFmpeg
\* fails; without data the call returns at once.
ConvertStep(st, wav_ok) ==
    IF wav_ok THEN [st EXCEPT !.pc = "scan"]
    ELSE [st EXCEPT !.pc = "rejected", !.result = ConvertFailure]

Convert(i) ==
    /\ call[i].pc = "convert"
    /\ \E wav_ok \in BOOLEAN :
          call' = [call EXCEPT ![i] = ConvertStep(call[i], wav_ok)]
    /\ UNCHANGED fcall

\* Clip lengths of the converted audio: empty, one frame, the shortest clip
\* that can succeed.
ProcessClipLengths == {0, 1, 35}

InitProcess ==
    /\ \E total \in ProcessClipLengths, ambient \in AmbientLevels :
          call = [i \in Calls |->
                     IF i = 1
                     THEN [InitialState(total, ambient) EXCEPT !.pc = "convert"]
                     ELSE IdleCall]
    /\ fcall = NoCall

NextProcess ==
    \E i \in Calls : Convert(i) \/ ScanFrame(i) \/ AfterLoop(i) \/ Validate(i)

SpecProcess == InitProcess /\ [][NextProcess]_vars

Returned(st) == st.pc \in {"done", "rejected"}

\* C15: every call of process_mpt_audio goes on until it returns, and
\* returns a record with a success and an mpt field; a conversion failure
\* (or an exception) gives success = false, mpt = 0, an error text and no
\* debug_info; a below-minimum outcome gives success = false with the
\* measured duration and a debug_info record.
C15_StructuredResult ==
    \A i \in Calls :
       /\ ( call[i].pc # "idle" /\ ~Returned(call[i]) )
          => ENABLED (Convert(i) \/ ScanFrame(i) \/ AfterLoop(i) \/ Validate(i))
       /\ Returned(call[i])
          => /\ {"success", "mpt"} \subseteq DOMAIN call[i].result
             /\ call[i].result.success \in BOOLEAN
             /\ ~call[i].result.success => "error" \in DOMAIN call[i].result
       /\ ( \/ call[i].pc = "rejected"
            \/ /\ call[i].pc = "done"
               /\ ~call[i].result.success
               /\ call[i].result.error = "Processing error" )
          => /\ DOMAIN call[i].result = {"success", "error", "mpt"}
             /\ ~call[i].result.success
             /\ call[i].result.mpt = 0
       /\ ( /\ call[i].pc = "done"
            /\ call[i].mpt_duration < MIN_SPEECH_DURATION )
          => /\ DOMAIN call[i].result = {"success", "error", "mpt", "debug_info"}
             /\ ~call[i].result.success
             /\ 10 * call[i].result.mpt = call[i].mpt_duration
             /\ call[i].result.debug_info = DebugInfo(call[i])

\* A call has returned the conversion failure.
C15_Witness ==
    /\ call[1].pc = "rejected"
    /\ ~call[1].result.success

\* ------------------------------------------------ concurrent invocations
\* The speech_frames counter kept in one place for all invocations.
LocalsSharedCounter(c, i) ==
    [c[i] EXCEPT !.speech_frames = Max(c[1].speech_frames, c[2].speech_frames)]

\* Lines 142-149: every invocation has its own locals.
Locals(c, i) == c[i]

\* A phonation interrupted by frames the oracle cannot judge: speech at
\* frames 5..8 and 21..45, failures at 9..20, silence elsewhere.
InterruptedJudgment(frame_num) ==
    IF (frame_num >= 5 /\ frame_num <= 8) \/ (frame_num >= 21 /\ frame_num <= 45)
    THEN "speech"
    ELSE IF frame_num >= 9 /\ frame_num <= 20 THEN "error"
    ELSE "silence"

\* The oracle's answers are a function of the buffer: the quiet buffers
\* hold the sustained phonation, the noisy ones the interrupted one.
BufferJudgment(st) ==
    IF st.noise_threshold < DEFAULT_NOISE THEN SustainedJudgment(st.frame_num)
    ELSE InterruptedJudgment(st.frame_num)

ConcurrentFrame(i) ==
    /\ call[i].pc = "scan"
    /\ call[i].frame_num < call[i].total_frames
    /\ call' = [call EXCEPT
                  ![i] = ScanStep(Locals(call, i), BufferJudgment(call[i]))]
    /\ UNCHANGED fcall

ConcurrentLengths == {0, 36, MaxConcurrentFrames}

InitConcurrent ==
    /\ \E t1 \in ConcurrentLengths, t2 \in ConcurrentLengths,
          a1 \in AmbientLevels, a2 \in AmbientLevels :
          call = [i \in Calls |->
                     IF i = 1 THEN InitialState(t1, a1) ELSE InitialState(t2, a2)]
    /\ fcall = NoCall

NextConcurrent ==
    \E i \in Calls : ConcurrentFrame(i) \/ AfterLoop(i) \/ Validate(i)

SpecConcurrent == InitConcurrent /\ [][NextConcurrent]_vars

\* One step of the invocation in state st when it runs with no other
\* invocation: the next frame of its buffer, the code after the loop, the
\* validation.
AloneStep(st) ==
    IF st.pc = "scan" /\ st.frame_num < st.total_frames
    THEN ScanStep(st, BufferJudgment(st))
    ELSE IF st.pc \in {"scan", "end"} THEN EndStep(st)
    ELSE IF st.pc = "validate" THEN ValidateStep(st)
    ELSE st

\* Two invocations given the same buffer and standing at the same place.
SameRun ==
    /\ call[1].total_frames = call[2].total_frames
    /\ call[1].noise_threshold = call[2].noise_threshold
    /\ call[1].pc = call[2].pc
    /\ call[1].frame_num = call[2].frame_num

C16_WitnessSame ==
    /\ SameRun
    /\ call[1].pc = "done"
    /\ call[1].result.success

\* ------------------------------------------------- the buffer in bytes
WAV_HEADER == 44

Max0(a) == IF a >= 0 THEN a ELSE 0

\* Line 126: audio_data = wav_data[44:], by its length.
AudioLength(wav_len) == Max0(wav_len - WAV_HEADER)

\* Line 142: total_frames = len(audio_data) // BYTES_PER_FRAME.
TotalFrames(audio_len) == audio_len \div BYTES_PER_FRAME

\* Lines 153-155: len(audio_data[start:end]) for the frame frame_num.
FrameLength(audio_len, frame_num) ==
    Min(BYTES_PER_FRAME, Max0(audio_len - frame_num * BYTES_PER_FRAME))

\* One iteration of the loop on a buffer of audio_len bytes: lines 157-159
\* leave the loop at an incomplete frame, otherwise the frame is judged.
BytesStep(st, audio_len, j) ==
    IF FrameLength(audio_len, st.frame_num) < BYTES_PER_FRAME
    THEN [st EXCEPT !.pc = "end"]
    ELSE ScanStep(st, j)

BytesFrame(i) ==
    /\ fcall.fn = "detect_speech_with_calibration"
    /\ call[i].pc = "scan"
    /\ call[i].frame_num < call[i].total_frames
    /\ \E j \in Judgments :
          /\ j = "speech" => call[i].speech_frames < MaxSpeechFrames
          /\ call' = [call EXCEPT
                        ![i] = BytesStep(call[i], AudioLength(fcall.arg), j)]
    /\ UNCHANGED fcall

\* Buffer lengths in bytes: empty, shorter than the header, the header
\* alone, less than one frame, 35 frames and an incomplete one, the longest
\* clip and one byte.
WavLengths ==
    {0, 30, WAV_HEADER, WAV_HEADER + BYTES_PER_FRAME - 1,
     WAV_HEADER + 35 * BYTES_PER_FRAME + BYTES_PER_FRAME - 1,
     WAV_HEADER + MaxBytesFrames * BYTES_PER_FRAME + 1}

InitBytes ==
    \E wav_len \in WavLengths, ambient \in AmbientLevels :
       /\ fcall = [fn |-> "detect_speech_with_calibration", arg |-> wav_len]
       /\ call = [i \in Calls |->
                    IF i = 1
                    THEN InitialState(TotalFrames(AudioLength(wav_len)), ambient)
                    ELSE IdleCall]

NextBytes == \E i \in Calls : BytesFrame(i) \/ AfterLoop(i) \/ Validate(i)

\* The scan is sequential code with no suspension point: a step that can
\* be taken is taken.
SpecBytes == InitBytes /\ [][NextBytes]_vars /\ WF_vars(NextBytes)

\* The frames call 1 has consumed: those before frame_num, and the frame
\* frame_num itself when the silence timeout broke the loop at it.
FramesConsumed ==
    IF call[1].pc = "scan" \/ call[1].frame_num = call[1].total_frames
    THEN call[1].frame_num
    ELSE call[1].frame_num + 1

\* C17: the scan of a buffer of B audio bytes consumes the frames in
\* increasing index order, one index per step and each at most once, only
\* frames that lie whole inside the buffer, at most floor(B / 960) of
\* them; the loop is left only after the last complete frame or at a
\* silence-timeout frame; and the call always returns.
C17_Terminates ==
    /\ [][(call[1].pc = "scan" /\ call'[1] # call[1]
           /\ call[1].frame_num < call[1].total_frames)
          => /\ (call[1].frame_num + 1) * BYTES_PER_FRAME
                    <= AudioLength(fcall.arg)
             /\ \/ /\ call'[1].pc = "scan"
                   /\ call'[1].frame_num = call[1].frame_num + 1
                \/ /\ call'[1].pc = "end"
                   /\ call'[1].frame_num = call[1].frame_num
                   /\ call[1].is_speaking
                   /\ ~call'[1].is_speech]_vars
    /\ [][call[1].pc # "scan" => call'[1].frame_num = call[1].frame_num]_vars
    /\ [](FramesConsumed * BYTES_PER_FRAME <= AudioLength(fcall.arg))
    /\ <>(call[1].pc = "done")

\* A buffer ending in an incomplete frame has been scanned to its last
\* complete frame and the call has returned.
C17_Witness ==
    /\ call[1].pc = "done"
    /\ call[1].total_frames >= 35
    /\ call[1].frame_num = call[1].total_frames
    /\ AudioLength(fcall.arg) % BYTES_PER_FRAME # 0

\* The scan of a buffer ended early, at a silence-timeout frame.
C17_WitnessEarly ==
    /\ call[1].pc = "done"
    /\ call[1].frame_num + 1 < call[1].total_frames
    /\ AudioLength(fcall.arg) % BYTES_PER_FRAME # 0

\* ------------------------------------------------ two phonation attempts
\* The frames of the two attempts of a clip: the first attempt starts at
\* FirstAttemptStart and is long in the quiet clips and short in the noisy
\* ones, the second starts well after the silence timeout of the first.
FirstAttemptStart == 3

FirstAttemptFrames(st) ==
    IF st.noise_threshold < DEFAULT_NOISE THEN 36 ELSE 10

SecondAttemptStart == 100

AttemptJudgment(st) ==
    IF \/ /\ st.frame_num >= FirstAttemptStart
          /\ st.frame_num < FirstAttemptStart + FirstAttemptFrames(st)
       \/ st.frame_num >= SecondAttemptStart
    THEN "speech"
    ELSE "silence"

AttemptFrame(i) ==
    /\ call[i].pc = "scan"
    /\ call[i].frame_num < call[i].total_frames
    /\ call' = [call EXCEPT ![i] = ScanStep(call[i], AttemptJudgment(call[i]))]
    /\ UNCHANGED fcall

InitAttempts ==
    /\ \E total \in 0..MaxAttemptFrames, ambient \in AmbientLevels :
          call = [i \in Calls |->
                     IF i = 1 THEN InitialState(total, ambient) ELSE IdleCall]
    /\ fcall = NoCall

NextAttempts == \E i \in Calls : AttemptFrame(i) \/ AfterLoop(i) \/ Validate(i)

SpecAttempts == InitAttempts /\ [][NextAttempts]_vars

\* The silence timeout has finalized the interval of the call.
TimedOut(st) == ~st.is_speaking /\ st.speech_start_time # None

\* The span of the first attempt when the whole of it is in the clip.
FirstAttemptSpan(st) == (FirstAttemptFrames(st) - 1) * FRAME_DURATION_MS

\* C18: once the silence timeout has finalized the interval, no frame is
\* taken and speech_frames, speechStartTime, lastSpeechTime and mptDuration
\* never change; the span starts at the first speech frame of the clip; and
\* a clip with a second attempt after the timeout returns the duration,
\* success and classification of the first attempt alone.
C18_FirstAttemptOnly ==
    /\ [][TimedOut(call[1])
          => /\ Detection(call'[1]) = Detection(call[1])
             /\ call'[1].frame_num = call[1].frame_num]_vars
    /\ [](call[1].speech_start_time
             \in {None, FirstAttemptStart * FRAME_DURATION_MS})
    /\ [](call[1].total_frames > SecondAttemptStart
          => /\ call[1].speech_frames <= FirstAttemptFrames(call[1])
             /\ call[1].last_speech_time < SecondAttemptStart * FRAME_DURATION_MS
             /\ call[1].frame_num < SecondAttemptStart
             /\ call[1].pc = "done"
                => /\ TimedOut(call[1])
                   /\ call[1].result.mpt = RoundMpt(FirstAttemptSpan(call[1]))
                   /\ call[1].result.success
                         = ~BelowMinimum(FirstAttemptSpan(call[1]))
                   /\ call[1].result.success
                      => call[1].result.classification
                            = classify_mpt(FirstAttemptSpan(call[1])))

\* A clip whose second attempt alone would have been long enough has
\* returned the successful measurement of its first attempt.
C18_Witness ==
    /\ call[1].pc = "done"
    /\ call[1].total_frames > SecondAttemptStart + 35
    /\ call[1].result.success
    /\ call[1].result.debug_info.speech_frames = FirstAttemptFrames(call[1])

\* A clip with a long second attempt has been rejected for its short first.
C18_WitnessShort ==
    /\ call[1].pc = "done"
    /\ call[1].total_frames > SecondAttemptStart + 35
    /\ ~call[1].result.success
    /\ call[1].result.mpt > 0

\* ------------------------------------------------------ long phonations
\* The first speech frame of a long phonation: the first frame of the
\* quiet clips, frame 36 of the noisy ones.
LongStart(st) == IF st.noise_threshold < DEFAULT_NOISE THEN 0 ELSE 36

\* One uninterrupted run of speech from LongStart to the end of the clip.
LongJudgment(st) == IF st.frame_num >= LongStart(st) THEN "speech" ELSE "silence"

LongFrame(i) ==
    /\ call[i].pc = "scan"
    /\ call[i].frame_num < call[i].total_frames
    /\ call' = [call EXCEPT ![i] = ScanStep(call[i], LongJudgment(call[i]))]
    /\ UNCHANGED fcall

InitLong ==
    /\ \E total \in 0..MaxLongFrames, ambient \in AmbientLevels :
          call = [i \in Calls |->
                     IF i = 1 THEN InitialState(total, ambient) ELSE IdleCall]
    /\ fcall = NoCall

NextLong == \E i \in Calls : LongFrame(i) \/ AfterLoop(i) \/ Validate(i)

SpecLong == InitLong /\ [][NextLong]_vars

\* C19: a returned call that took an uninterrupted run of n >= 1 speech
\* frames measured (n - 1) * 30 ms, the distance between the first and the
\* last speech frame: the value classified and the value reported are that
\* multiple of 30 ms, one frame gives 0, and the call succeeds exactly when
\* the two frames are at least 34 indices apart.
C19_FrameDistance ==
    (call[1].pc = "done" /\ call[1].speech_frames >= 1)
    => LET n == call[1].speech_frames
           span == (n - 1) * FRAME_DURATION_MS
       IN  /\ call[1].last_speech_time - call[1].speech_start_time = span
           /\ call[1].mpt_duration = span
           /\ mpt_value(call[1]) = span
           /\ call[1].result.mpt = RoundMpt(span)
           /\ n = 1 => call[1].result.mpt = 0
           /\ call[1].result.success <=> n - 1 >= 34
           /\ call[1].result.success
              => call[1].result.classification = classify_mpt(span)

\* ------------------------------------------------- counter consistency
\* The content of the long clip: two speech frames, the second at the
\* smallest distance that succeeds, and silence.
SparseJudgment(frame_num) ==
    IF frame_num = 0 \/ frame_num = MIN_SPEECH_DURATION \div FRAME_DURATION_MS + 1
    THEN "speech"
    ELSE "silence"

\* The loop takes the next frame: any answer of the oracle in the short
\* clips, the sparse content in the long one.
CountersFrame(i) ==
    /\ call[i].pc = "scan"
    /\ call[i].frame_num < call[i].total_frames
    /\ \E j \in Judgments :
          /\ j = "speech" => call[i].speech_frames < MaxSpeechFrames
          /\ call[i].total_frames > MaxFrames
             => j = SparseJudgment(call[i].frame_num)
          /\ call' = [call EXCEPT ![i] = ScanStep(call[i], j)]
    /\ UNCHANGED fcall

InitCounters ==
    /\ \E total \in ClipLengths \cup {MaxCounterFrames}, ambient \in AmbientLevels :
          call = [i \in Calls |->
                     IF i = 1 THEN InitialState(total, ambient) ELSE IdleCall]
    /\ fcall = NoCall

NextCounters == \E i \in Calls : CountersFrame(i) \/ AfterLoop(i) \/ Validate(i)

SpecCounters == InitCounters /\ [][NextCounters]_vars

\* The relations between the counters of call 1 that hold in every state.
CountersConsistent ==
    LET st == call[1]
    IN  /\ (st.speech_start_time # None) <=> (st.last_speech_time # None)
        /\ (st.speech_start_time # None) <=> (st.speech_frames >= 1)
        /\ st.is_speaking
           => st.speech_start_time # None /\ st.last_speech_time # None
        /\ st.speech_start_time # None
           => /\ st.speech_frames >= 1
              /\ (st.speech_frames - 1) * FRAME_DURATION_MS
                    <= st.last_speech_time - st.speech_start_time
        /\ st.speech_frames <= FramesConsumed
        /\ FramesConsumed <= st.total_frames
        /\ (st.pc = "done" /\ st.total_frames = 0)
           => "error" \in DOMAIN st.result /\ st.result.error = "Speech too short"
        /\ (st.pc = "done" /\ st.result.success)
           => st.total_frames >= MIN_SPEECH_DURATION \div FRAME_DURATION_MS + 2

\* C20 as stated: the counters are consistent and every success reports a
\* speech_percentage above 0 and at most 100.
C20_AsStated ==
    /\ CountersConsistent
    /\ (call[1].pc = "done" /\ call[1].result.success)
       => /\ call[1].result.debug_info.speech_percentage > 0
          /\ call[1].result.debug_info.speech_percentage <= 1000

\* C20: the counters are consistent in every state; every success has
\* total_frames >= 35 and a speech_percentage from 0 to 100, which is 0
\* exactly when the speech frames are less than 0.05 % of the clip, and is
\* never computed with total_frames = 0.
C20_Counters ==
    /\ CountersConsistent
    /\ (call[1].pc = "done" /\ call[1].result.success)
       => /\ call[1].result.debug_info.speech_percentage >= 0
          /\ call[1].result.debug_info.speech_percentage <= 1000
          /\ call[1].result.debug_info.speech_percentage = 0
             <=> 2000 * call[1].speech_frames < call[1].total_frames

\* The long clip has succeeded with a speech_percentage of 0.0.
C20_Witness ==
    /\ call[1].pc = "done"
    /\ call[1].result.success
    /\ call[1].total_frames = MaxCounterFrames
    /\ call[1].result.debug_info.speech_percentage = 0

\* A short clip has succeeded with a positive speech_percentage.
C20_WitnessShort ==
    /\ call[1].pc = "done"
    /\ call[1].result.success
    /\ call[1].total_frames <= MaxFrames
    /\ call[1].result.debug_info.speech_percentage > 0

====
